---- MODULE Spec2Model ----
(***************************************************************************)
(* Datum iterators (iterator_v2.go, package datum) and the Puller          *)
(* (package sync, same file from line 296 on) of pachyderm.                *)
(*                                                                         *)
(* The Puller part is a state machine: one Puller, the Pull / PullDiff /   *)
(* PullTree calls made on it, the goroutines those calls start (pipe       *)
(* writers, eager-copy workers), the user code that may open the FIFOs,    *)
(* and CleanUp.  Files are numbered 1..NumFiles; every call walks the next *)
(* unvisited files, so a file number is also a path.                       *)
(***************************************************************************)
EXTENDS Integers, Sequences, FiniteSets, TLC

\* ---------------------------------------------------------------- bounds
NumFiles == 2
MaxCleanUps == 2
MaxConcurrency == 2
\* files a glob matches at most; children of a union or cross at most
MaxYield == 2
MaxChildren == 2
MaxMembers == 2
\* children of the widest cross explored, each yielding one-element lists
MaxWide == 4
MaxObjects == 3
MaxLocalLen == 6

Files == 1..NumFiles

\* ---------------------------------------------------------------- values
\* the nil error
Nil == <<"nil", 0>>
\* an error value: what failed, and for which path
Err(k, f) == <<k, f>>
\* fileInfo.SizeBytes of file f: distinct powers of two, so that a sum of
\* sizes identifies the set of files it was taken over
SizeBytes(f) == 2 ^ (f - 1)

RECURSIVE SumBytes(_)
SumBytes(S) ==
  IF S = {} THEN 0
  ELSE LET f == CHOOSE x \in S : TRUE IN SizeBytes(f) + SumBytes(S \ {f})

VARIABLES
  \* Puller fields
  errCh,      \* chan error, capacity 1: a sequence of length <= 1
  pipes,      \* map[string]bool: the set of paths in it
  cleaned,    \* bool
  wg,         \* sync.WaitGroup counter
  size,       \* int64
  \* the Pull / PullDiff / PullTree call in progress (or the last one)
  pullPc,     \* "idle" | "walk" | "wait"
  call,       \* its arguments and walk position
  egErr,      \* errgroup.Group: first error returned by a worker
  pullRet,    \* the error the last call returned
  limiter,    \* limit.New(concurrency) by call number; 0 once the call has
              \* returned and none of its workers is left to use it
  nextFile,   \* the first file no call has walked yet
  \* per path
  art,        \* what is at the path: "none" | "dir" | "fifo" | "empty" | "file"
  owner,      \* number of the call that visited the path (0: none)
  gpc,        \* position of the goroutine started for the path
  userRd,     \* user code's read side of the FIFO: "never" | "open" | "closed"
  \* CleanUp
  cpc,        \* "idle" | "lock" | "wait" | "size" | "reset" | "returned"
  result,     \* local: var result error
  opened,     \* local: var pipes []io.Closer, as [path, ok] records (ok:
              \* the open succeeded, the entry is not a nil file)
  sz,         \* local: size := p.size
  retBytes,   \* the last CleanUp's returned byte count
  retErr,     \* the last CleanUp's returned error
  nClean,     \* number of CleanUp calls that have returned
  sessStart,  \* first file of the current session (since the last CleanUp)
  \* history (never read by the program)
  firstSent,  \* first error sent to errCh since it was last received from
  nFailed,    \* number of pipe writers whose fetch or Close failed since the
              \* last CleanUp returned
  sessOk,     \* paths whose fetch completed without error since then
  slot0,      \* what the running CleanUp received from errCh
  firstTd,    \* first teardown error (open, close) of the running CleanUp
  last,       \* the history of the session the last CleanUp closed
  fate,       \* per path, how its pipe writer left its open and its locked
              \* section: "none" | "openErr" | "fetch" | "skip"
  snapshot    \* the paths CleanUp found in p.pipes in its locked section

\* CleanUp's locals and results, without its position
cleanupVars == <<result, opened, sz, retBytes, retErr, nClean, sessStart>>

history == <<firstSent, nFailed, sessOk, slot0, firstTd, last, fate, snapshot>>

pullerVars == <<errCh, pipes, cleaned, wg, size, pullPc, call, limiter, egErr,
                pullRet, nextFile, art, owner, gpc, userRd, cpc, cleanupVars,
                history>>

\* the datum iterators: one input tree, the iterator built from it, and one
\* Iterate call on that iterator
VARIABLES
  input,      \* *pps.Input handed to NewIteratorV2
  cbFailAt,   \* the invocation at which the caller's cb returns an error (0: never)
  iter,       \* the IteratorV2 NewIteratorV2 returned
  calls,      \* the datums cb has been invoked with, in order
  iterRet,    \* the error NewIteratorV2 or Iterate returned
  iterPc,     \* "new" | "ready" | "done"
  archive,    \* the tar stream GetTarV2 serves to the FileSet iterator
  probe,      \* observations of the Iterate call: the first error raised,
              \* whether anything ran after an error, the glob walks made
  build,      \* the Go build: the size of a pointer, and whether its
              \* allocator has a 24-byte size class
  retained    \* the lists cb was invoked with, as a cb that kept them reads
              \* them once Iterate has returned

iterVars == <<input, cbFailAt, iter, calls, iterRet, iterPc, archive, probe,
              build, retained>>

\* one PushFile call
VARIABLES
  pushIn,     \* what the call meets: InspectFile's answer, the bytes of
              \* osFile, and the call on osFile or pfc that fails, if any
  pushOut,    \* what the call did: the error it returned, the position it
              \* left osFile at, the Seek and PutFileOverwrite calls it made
  pushPc      \* "new" | "done"

pushVars == <<pushIn, pushOut, pushPc>>

\* what the Puller's operations leave alone
datumVars == <<iterVars, pushVars>>

vars == <<pullerVars, iterVars, pushVars>>

\* ------------------------------------------------------------- NewPuller
NoCall == [n |-> 0, kind |-> "Pull", pipes |-> FALSE, emptyFiles |-> FALSE,
           newOnly |-> FALSE, cur |-> 1, last |-> 0, firstOld |-> 1]

NoHistory == [failed |-> 0, ok |-> {}, slot0 |-> Nil, td |-> Nil]

NewPuller ==
  /\ errCh = <<>>
  /\ pipes = {}
  /\ cleaned = FALSE
  /\ wg = 0
  /\ size = 0
  /\ pullPc = "idle"
  /\ call = NoCall
  /\ limiter = [n \in Files |-> 0]
  /\ egErr = Nil
  /\ pullRet = Nil
  /\ nextFile = 1
  /\ art = [f \in Files |-> "none"]
  /\ owner = [f \in Files |-> 0]
  /\ gpc = [f \in Files |-> "none"]
  /\ userRd = [f \in Files |-> "never"]
  /\ cpc = "idle"
  /\ result = Nil
  /\ opened = {}
  /\ sz = 0
  /\ retBytes = 0
  /\ retErr = Nil
  /\ nClean = 0
  /\ sessStart = 1
  /\ firstSent = Nil
  /\ nFailed = 0
  /\ sessOk = {}
  /\ slot0 = Nil
  /\ firstTd = Nil
  /\ last = NoHistory
  /\ fate = [f \in Files |-> "none"]
  /\ snapshot = {}

\* ------------------------------------------------------------ helpers
\* a send that replaces what the slot holds
SendOverwrite(ch, e) == <<e>>

\* select { case p.errCh <- err: default: }
TrySend(ch, e) == IF Len(ch) < 1 THEN Append(ch, e) ELSE ch

\* the paths CleanUp holds a read side of
CleanRd == {o.path : o \in {x \in opened : x.ok}}

\* a reader has the FIFO open, so that open(O_WRONLY) returns
HasReader(f) == userRd[f] = "open" \/ f \in CleanRd

\* permits of the call's limiter that are taken
Permits(n) == Cardinality({f \in Files : owner[f] = n /\ gpc[f] = "efetch"})

\* the workers of call n's error group that have not returned
Running(n) == {f \in Files : owner[f] = n /\ gpc[f] \in {"eacq", "efetch"}}

\* The caller discards the scratch tree of a session that CleanUp has closed
\* and the values CleanUp returned: nothing reads them again.
Dead(f) == cpc = "returned" /\ f < sessStart /\ gpc[f] \in {"none", "done"}
ForgetSession ==
  /\ art' = [f \in Files |-> IF Dead(f) THEN "none" ELSE art[f]]
  /\ owner' = [f \in Files |-> IF Dead(f) THEN 0 ELSE owner[f]]
  /\ gpc' = [f \in Files |-> IF Dead(f) THEN "none" ELSE gpc[f]]
  /\ userRd' = [f \in Files |-> IF Dead(f) THEN "never" ELSE userRd[f]]
  /\ retBytes' = 0
  /\ retErr' = Nil
  /\ last' = NoHistory
  /\ fate' = [f \in Files |-> IF Dead(f) THEN "none" ELSE fate[f]]
  /\ snapshot' = {f \in snapshot : ~Dead(f)}

\* PullDiff walks the new files, then (unless newOnly) the old files
IsOld(f) == call.kind = "PullDiff" /\ f >= call.firstOld

\* ------------------------------------------- Pull, PullDiff, PullTree
\* A call starts: limiter := limit.New(concurrency); var eg errgroup.Group.
\* It will walk the files nextFile..lst.  Calls are made while no user code
\* and no CleanUp is running.
StartCall(kind, p, e, no, c, lst, fo) ==
  /\ pullPc = "idle"
  /\ cpc \in {"idle", "returned"}
  /\ \A f \in Files : userRd[f] # "open"
  /\ nextFile <= NumFiles
  /\ lst \in nextFile..NumFiles
  /\ call' = [n |-> call.n + 1, kind |-> kind, pipes |-> p, emptyFiles |-> e,
              newOnly |-> no, cur |-> nextFile, last |-> lst, firstOld |-> fo]
  /\ limiter' = [limiter EXCEPT ![call.n + 1] = c]
  /\ nextFile' = lst + 1
  /\ egErr' = Nil
  /\ pullRet' = Nil
  /\ pullPc' = "walk"
  /\ cpc' = "idle"
  /\ ForgetSession
  /\ UNCHANGED <<errCh, pipes, cleaned, wg, size, result, opened, sz, nClean,
                 sessStart, firstSent, nFailed, sessOk, slot0, firstTd>>
  /\ UNCHANGED datumVars

Pull ==
  \E p \in BOOLEAN, e \in BOOLEAN, c \in 1..MaxConcurrency, lst \in Files :
    StartCall("Pull", p, e, FALSE, c, lst, lst + 1)

\* newOnly: the old files are not walked
PullDiff ==
  \E p \in BOOLEAN, e \in BOOLEAN, no \in BOOLEAN, c \in 1..MaxConcurrency,
     lst \in Files, fo \in 1..(NumFiles + 1) :
    /\ fo \in nextFile..(lst + 1)
    /\ no => fo = lst + 1
    /\ StartCall("PullDiff", p, e, no, c, lst, fo)

PullTree ==
  \E p \in BOOLEAN, c \in 1..MaxConcurrency, lst \in Files :
    StartCall("PullTree", p, FALSE, FALSE, c, lst, lst + 1)

\* client.DiffFile fails: PullDiff returns before it has started anything
DiffFileError ==
  /\ pullPc = "idle"
  /\ cpc \in {"idle", "returned"}
  /\ \A f \in Files : userRd[f] # "open"
  /\ pullRet' = Err("DiffFile", 0)
  /\ cpc' = "idle"
  /\ ForgetSession
  /\ UNCHANGED <<errCh, pipes, cleaned, wg, size, pullPc, call, limiter, egErr,
                 nextFile, result, opened, sz, nClean, sessStart, firstSent,
                 nFailed, sessOk, slot0, firstTd>>
  /\ UNCHANGED datumVars

Visiting(f) == pullPc = "walk" /\ f = call.cur /\ f <= call.last

\* the walk goes on to the next file, or ends and the call reaches eg.Wait()
Advance ==
  /\ call' = [call EXCEPT !.cur = @ + 1]
  /\ pullPc' = IF call.cur = call.last THEN "wait" ELSE "walk"
  /\ UNCHANGED pullRet

\* the call's locals go out of scope when it returns; its limiter stays in
\* use if workers of its error group are still running
Returned == [NoCall EXCEPT !.n = call.n]
Release(n, running) == [limiter EXCEPT ![n] = IF running = {} THEN 0 ELSE @]

\* return err, without eg.Wait()
ReturnErr(e) ==
  /\ pullPc' = "idle"
  /\ pullRet' = e
  /\ call' = Returned
  /\ egErr' = Nil
  /\ limiter' = Release(call.n, Running(call.n))

\* the walk callback fails before it dispatches on the mode (filepath.Rel,
\* InspectObject, tree.PutFile, MkdirAll of a directory), or the walk itself
\* fails: the call returns the error
WalkError(f) ==
  /\ Visiting(f)
  /\ ReturnErr(Err("walk", f))
  /\ owner' = [owner EXCEPT ![f] = call.n]
  /\ UNCHANGED <<errCh, pipes, cleaned, wg, size, nextFile,
                 art, gpc, userRd, cpc, cleanupVars, history>>
  /\ UNCHANGED datumVars

\* a directory: Pull creates it, PullTree has no FileNode and skips it
VisitDir(f) ==
  /\ Visiting(f)
  /\ call.kind \in {"Pull", "PullTree"}
  /\ art' = [art EXCEPT ![f] = IF call.kind = "Pull" THEN "dir" ELSE "none"]
  /\ owner' = [owner EXCEPT ![f] = call.n]
  /\ Advance
  /\ UNCHANGED <<errCh, pipes, cleaned, wg, size, limiter, egErr, nextFile,
                 gpc, userRd, cpc, cleanupVars, history>>
  /\ UNCHANGED datumVars

\* makePipe up to the go statement: Mkfifo, p.pipes[path] = true, p.wg.Add(1)
makePipe(f) ==
  /\ art' = [art EXCEPT ![f] = "fifo"]
  /\ pipes' = pipes \cup {f}
  /\ wg' = wg + 1
  /\ gpc' = [gpc EXCEPT ![f] = "wopen"]

VisitPipe(f) ==
  /\ Visiting(f)
  /\ call.pipes
  /\ makePipe(f)
  /\ owner' = [owner EXCEPT ![f] = call.n]
  /\ Advance
  /\ UNCHANGED <<errCh, cleaned, size, limiter, egErr, nextFile, userRd,
                 cpc, cleanupVars, history>>
  /\ UNCHANGED datumVars

\* MkdirAll or Mkfifo fails in makePipe: the call returns the error
VisitPipeError(f) ==
  /\ Visiting(f)
  /\ call.pipes
  /\ ReturnErr(Err("mkfifo", f))
  /\ owner' = [owner EXCEPT ![f] = call.n]
  /\ UNCHANGED <<errCh, pipes, cleaned, wg, size, nextFile,
                 art, gpc, userRd, cpc, cleanupVars, history>>
  /\ UNCHANGED datumVars

\* an emptyFiles test that comes before the pipes test
EmptyBranchFirst(f) ==
  /\ call.emptyFiles
  /\ call.kind = "Pull" \/ (call.kind = "PullDiff" /\ ~IsOld(f))

\* the emptyFiles branch exists in Pull and in PullDiff's loop over new files
EmptyBranch(f) ==
  /\ ~call.pipes
  /\ call.emptyFiles
  /\ call.kind = "Pull" \/ (call.kind = "PullDiff" /\ ~IsOld(f))

\* makeFile with a fetch that writes nothing: w.size = 0 is added to p.size
VisitEmpty(f) ==
  /\ Visiting(f)
  /\ EmptyBranch(f)
  /\ art' = [art EXCEPT ![f] = "empty"]
  /\ size' = size + 0
  /\ owner' = [owner EXCEPT ![f] = call.n]
  /\ Advance
  /\ UNCHANGED <<errCh, pipes, cleaned, wg, limiter, egErr, nextFile, gpc,
                 userRd, cpc, cleanupVars, history>>
  /\ UNCHANGED datumVars

\* makeFile fails (MkdirAll, Create or Close): the call returns the error
VisitEmptyError(f) ==
  /\ Visiting(f)
  /\ EmptyBranch(f)
  /\ ReturnErr(Err("create", f))
  /\ owner' = [owner EXCEPT ![f] = call.n]
  /\ UNCHANGED <<errCh, pipes, cleaned, wg, size, nextFile,
                 art, gpc, userRd, cpc, cleanupVars, history>>
  /\ UNCHANGED datumVars

\* eager copy: eg.Go(...).  Pull's worker acquires the limiter itself;
\* PullDiff and PullTree acquire it before they start the worker.
VisitEager(f) ==
  /\ Visiting(f)
  /\ ~call.pipes
  /\ ~EmptyBranch(f)
  /\ IF call.kind = "Pull"
       THEN gpc' = [gpc EXCEPT ![f] = "eacq"]
       ELSE /\ Permits(call.n) < limiter[call.n]
            /\ gpc' = [gpc EXCEPT ![f] = "efetch"]
  /\ owner' = [owner EXCEPT ![f] = call.n]
  /\ Advance
  /\ UNCHANGED <<errCh, pipes, cleaned, wg, size, limiter, egErr, nextFile,
                 art, userRd, cpc, cleanupVars, history>>
  /\ UNCHANGED datumVars

\* a Pull that also joins the pipe writers before it returns
PullWaitWriters ==
  /\ pullPc = "wait"
  /\ Running(call.n) = {}
  /\ wg = 0
  /\ pullPc' = "idle"
  /\ pullRet' = egErr
  /\ call' = Returned
  /\ egErr' = Nil
  /\ limiter' = Release(call.n, {})
  /\ UNCHANGED <<errCh, pipes, cleaned, wg, size, nextFile, art, owner, gpc, userRd, cpc, cleanupVars, history>>
  /\ UNCHANGED datumVars

\* return eg.Wait()
PullWait ==
  /\ pullPc = "wait"
  /\ Running(call.n) = {}
  /\ pullPc' = "idle"
  /\ pullRet' = egErr
  /\ call' = Returned
  /\ egErr' = Nil
  /\ limiter' = Release(call.n, {})
  /\ UNCHANGED <<errCh, pipes, cleaned, wg, size, nextFile, art, owner, gpc, userRd, cpc, cleanupVars, history>>
  /\ UNCHANGED datumVars

\* ------------------------------------------------ eager-copy workers
\* a worker that starts its fetch without a permit
WorkerAcquireFree(f) ==
  /\ gpc[f] = "eacq"
  /\ gpc' = [gpc EXCEPT ![f] = "efetch"]
  /\ UNCHANGED <<errCh, pipes, cleaned, wg, size, pullPc, call, limiter, egErr,
                 pullRet, nextFile, art, owner, userRd, cpc, cleanupVars,
                 history>>
  /\ UNCHANGED datumVars

\* limiter.Acquire() at the head of Pull's worker
WorkerAcquire(f) ==
  /\ gpc[f] = "eacq"
  /\ Permits(owner[f]) < limiter[owner[f]]
  /\ gpc' = [gpc EXCEPT ![f] = "efetch"]
  /\ UNCHANGED <<errCh, pipes, cleaned, wg, size, pullPc, call, limiter, egErr,
                 pullRet, nextFile, art, owner, userRd, cpc, cleanupVars,
                 history>>
  /\ UNCHANGED datumVars

\* what makeFile adds to p.size: atomic.AddInt64(&p.size, w.size) is reached
\* only when the fetch returned nil; a failed fetch leaves w.size unused
Added(f, fetched) == IF fetched THEN SizeBytes(f) ELSE 0

\* the error makeFile / the pipe writer ends with: the fetch's error, else
\* the deferred Close's error, else nil
Outcomes == {"ok", "fetchErr", "closeErr"}
OutcomeErr(f, o) ==
  CASE o = "ok" -> Nil
    [] o = "fetchErr" -> Err("fetch", f)
    [] o = "closeErr" -> Err("close", f)

\* the worker's call has not returned: its error group is still waited for
InGroup(f) == owner[f] = call.n /\ pullPc # "idle"

\* the worker runs makeFile to its end, releases the limiter and returns its
\* error to the error group, which keeps the first one
WorkerFinish(f, o) ==
  /\ gpc[f] = "efetch"
  /\ o \in Outcomes
  /\ art' = [art EXCEPT ![f] = "file"]
  /\ size' = size + Added(f, o # "fetchErr")
  /\ sessOk' = IF o # "fetchErr" THEN sessOk \cup {f} ELSE sessOk
  /\ egErr' = IF InGroup(f) /\ egErr = Nil THEN OutcomeErr(f, o) ELSE egErr
  /\ limiter' = IF InGroup(f) THEN limiter
                ELSE Release(owner[f], Running(owner[f]) \ {f})
  /\ gpc' = [gpc EXCEPT ![f] = "done"]
  /\ UNCHANGED <<errCh, pipes, cleaned, wg, pullPc, call, pullRet,
                 nextFile, owner, userRd, cpc, cleanupVars, firstSent, nFailed,
                 slot0, firstTd, last, fate, snapshot>>
  /\ UNCHANGED datumVars

\* ------------------------------------------------------- pipe writers
\* the writer's error goes to errCh if there is room; p.wg.Done()
WriterExit(f, e) ==
  /\ errCh' = IF e = Nil THEN errCh ELSE TrySend(errCh, e)
  /\ firstSent' = IF e # Nil /\ firstSent = Nil THEN e ELSE firstSent
  /\ nFailed' = IF e = Nil \/ e[1] = "wopen" THEN nFailed ELSE nFailed + 1
  /\ wg' = wg - 1
  /\ gpc' = [gpc EXCEPT ![f] = "done"]

\* os.OpenFile(path, os.O_WRONLY, ...) returns once a reader has the FIFO open
WriterOpen(f) ==
  /\ gpc[f] = "wopen"
  /\ HasReader(f)
  /\ gpc' = [gpc EXCEPT ![f] = "wlock"]
  /\ UNCHANGED <<errCh, pipes, cleaned, wg, size, pullPc, call, limiter, egErr,
                 pullRet, nextFile, art, owner, userRd, cpc, cleanupVars,
                 history>>
  /\ UNCHANGED datumVars

\* ... or fails: the writer returns the error with the path still in p.pipes
WriterOpenError(f) ==
  /\ gpc[f] = "wopen"
  /\ WriterExit(f, Err("wopen", f))
  /\ fate' = [fate EXCEPT ![f] = "openErr"]
  /\ UNCHANGED <<pipes, cleaned, size, pullPc, call, limiter, egErr, pullRet,
                 nextFile, art, owner, userRd, cpc, cleanupVars, sessOk, slot0,
                 firstTd, last, snapshot>>
  /\ UNCHANGED datumVars

\* a writer that removes its path and goes on to fetch without reading
\* p.cleaned
WriterLockBlind(f, closeOk) ==
  /\ gpc[f] = "wlock"
  /\ pipes' = pipes \ {f}
  /\ fate' = [fate EXCEPT ![f] = "fetch"]
  /\ closeOk
  /\ gpc' = [gpc EXCEPT ![f] = "wfetch"]
  /\ UNCHANGED <<errCh, wg, size, firstSent, nFailed>>
  /\ UNCHANGED <<cleaned, pullPc, call, limiter, egErr, pullRet, nextFile, art,
                 owner, userRd, cpc, cleanupVars, sessOk, slot0, firstTd, last,
                 snapshot>>
  /\ UNCHANGED datumVars

\* p.Lock(); delete(p.pipes, path); return p.cleaned.  The sections under
\* p.Lock() are the atomic steps of the model.  With cleaned set the writer
\* returns nil without fetching, and only its deferred Close can still fail.
WriterLock(f, closeOk) ==
  /\ gpc[f] = "wlock"
  /\ pipes' = pipes \ {f}
  /\ fate' = [fate EXCEPT ![f] = IF cleaned THEN "skip" ELSE "fetch"]
  /\ IF cleaned
       THEN /\ WriterExit(f, IF closeOk THEN Nil ELSE Err("close", f))
            /\ UNCHANGED size
       ELSE /\ closeOk
            /\ gpc' = [gpc EXCEPT ![f] = "wfetch"]
            /\ UNCHANGED <<errCh, wg, size, firstSent, nFailed>>
  /\ UNCHANGED <<cleaned, pullPc, call, limiter, egErr, pullRet, nextFile, art,
                 owner, userRd, cpc, cleanupVars, sessOk, slot0, firstTd, last,
                 snapshot>>
  /\ UNCHANGED datumVars

\* f(w), then atomic.AddInt64(&p.size, w.size) if it returned nil, then Close
WriterFetch(f, o) ==
  /\ gpc[f] = "wfetch"
  /\ o \in Outcomes
  /\ size' = size + Added(f, o # "fetchErr")
  /\ sessOk' = IF o # "fetchErr" THEN sessOk \cup {f} ELSE sessOk
  /\ WriterExit(f, OutcomeErr(f, o))
  /\ UNCHANGED <<pipes, cleaned, pullPc, call, limiter, egErr, pullRet,
                 nextFile, art, owner, userRd, cpc, cleanupVars, slot0, firstTd,
                 last, fate, snapshot>>
  /\ UNCHANGED datumVars

\* ---------------------------------------------------------- user code
\* User code runs between the calls and CleanUp; it opens some of the FIFOs
\* of its session for reading and closes them again before CleanUp.
UserOpen(f) ==
  /\ pullPc = "idle"
  /\ cpc = "idle"
  /\ art[f] = "fifo"
  /\ f >= sessStart
  /\ userRd[f] = "never"
  /\ userRd' = [userRd EXCEPT ![f] = "open"]
  /\ UNCHANGED <<errCh, pipes, cleaned, wg, size, pullPc, call, limiter, egErr,
                 pullRet, nextFile, art, owner, gpc, cpc, cleanupVars, history>>
  /\ UNCHANGED datumVars

UserClose(f) ==
  /\ userRd[f] = "open"
  /\ userRd' = [userRd EXCEPT ![f] = "closed"]
  /\ UNCHANGED <<errCh, pipes, cleaned, wg, size, pullPc, call, limiter, egErr,
                 pullRet, nextFile, art, owner, gpc, cpc, cleanupVars, history>>
  /\ UNCHANGED datumVars

\* ------------------------------------------------------------ CleanUp
\* select { case result = <-p.errCh: default: }
CleanUpBegin ==
  /\ cpc \in {"idle", "returned"}
  /\ pullPc = "idle"
  /\ \A f \in Files : userRd[f] # "open"
  /\ nClean < MaxCleanUps
  /\ result' = IF errCh # <<>> THEN Head(errCh) ELSE Nil
  /\ errCh' = <<>>
  /\ opened' = {}
  /\ cpc' = "lock"
  /\ firstSent' = Nil
  /\ slot0' = firstSent
  /\ firstTd' = Nil
  /\ ForgetSession
  /\ UNCHANGED <<pipes, cleaned, wg, size, pullPc, call, limiter, egErr,
                 pullRet, nextFile, sz, nClean, sessStart, nFailed, sessOk>>
  /\ UNCHANGED datumVars

\* The section under p.Lock(): p.cleaned = true; for every path of p.pipes,
\* in the map's order, open the read side without blocking, keep the first
\* error and append the file (nil when the open failed); empty p.pipes.
\* okSet: the paths whose open succeeds; first: the first path whose open
\* fails, when one does.
CleanUpLock(okSet, first) ==
  /\ cpc = "lock"
  /\ okSet \subseteq pipes
  /\ first \in (IF okSet = pipes THEN {0} ELSE pipes \ okSet)
  /\ cleaned' = TRUE
  /\ opened' = {[path |-> f, ok |-> f \in okSet] : f \in pipes}
  /\ result' = IF first # 0 /\ result = Nil THEN Err("ropen", first) ELSE result
  /\ firstTd' = IF first # 0 THEN Err("ropen", first) ELSE firstTd
  /\ pipes' = {}
  /\ snapshot' = snapshot \cup pipes
  /\ cpc' = "wait"
  /\ UNCHANGED <<errCh, wg, size, pullPc, call, limiter, egErr, pullRet,
                 nextFile, art, owner, gpc, userRd, sz, retBytes, retErr,
                 nClean, sessStart, firstSent, nFailed, sessOk, slot0, last,
                 fate>>
  /\ UNCHANGED datumVars

\* p.wg.Wait(), then for every entry of pipes, in order, Close it and keep
\* the first error.  Close fails on a nil file and may fail on an open one.
\* failSet: the entries whose Close fails; first: the first of them.
CleanUpWait(failSet, first) ==
  /\ cpc = "wait"
  /\ wg = 0
  /\ failSet \subseteq {o.path : o \in opened}
  /\ {o.path : o \in {x \in opened : ~x.ok}} \subseteq failSet
  /\ first \in (IF failSet = {} THEN {0} ELSE failSet)
  /\ opened' = {}
  /\ result' = IF first # 0 /\ result = Nil THEN Err("rclose", first) ELSE result
  /\ firstTd' = IF first # 0 /\ firstTd = Nil THEN Err("rclose", first) ELSE firstTd
  /\ cpc' = "size"
  /\ UNCHANGED <<errCh, pipes, cleaned, wg, size, pullPc, call, limiter, egErr,
                 pullRet, nextFile, art, owner, gpc, userRd, sz, retBytes,
                 retErr, nClean, sessStart, firstSent, nFailed, sessOk, slot0,
                 last, fate, snapshot>>
  /\ UNCHANGED datumVars

\* size := p.size
CleanUpSize ==
  /\ cpc = "size"
  /\ sz' = size
  /\ cpc' = "reset"
  /\ UNCHANGED <<errCh, pipes, cleaned, wg, size, pullPc, call, limiter, egErr,
                 pullRet, nextFile, art, owner, gpc, userRd, result, opened,
                 retBytes, retErr, nClean, sessStart, history>>
  /\ UNCHANGED datumVars

\* a CleanUp that clears the flag again when it returns
CleanUpReturnClear ==
  /\ cpc = "reset"
  /\ size' = 0
  /\ cleaned' = FALSE
  /\ retBytes' = sz
  /\ retErr' = result
  /\ nClean' = nClean + 1
  /\ cpc' = "returned"
  /\ sessStart' = nextFile
  /\ last' = [failed |-> nFailed, ok |-> sessOk, slot0 |-> slot0, td |-> firstTd]
  /\ nFailed' = 0
  /\ sessOk' = {}
  /\ result' = Nil
  /\ sz' = 0
  /\ slot0' = Nil
  /\ firstTd' = Nil
  /\ UNCHANGED <<errCh, pipes, wg, pullPc, call, limiter, egErr,
                 pullRet, nextFile, art, owner, gpc, userRd, opened, firstSent,
                 fate, snapshot>>
  /\ UNCHANGED datumVars

\* p.size = 0; return size, result
CleanUpReturn ==
  /\ cpc = "reset"
  /\ size' = 0
  /\ retBytes' = sz
  /\ retErr' = result
  /\ nClean' = nClean + 1
  /\ cpc' = "returned"
  /\ sessStart' = nextFile
  /\ last' = [failed |-> nFailed, ok |-> sessOk, slot0 |-> slot0, td |-> firstTd]
  /\ nFailed' = 0
  /\ sessOk' = {}
  /\ result' = Nil
  /\ sz' = 0
  /\ slot0' = Nil
  /\ firstTd' = Nil
  /\ UNCHANGED <<errCh, pipes, cleaned, wg, pullPc, call, limiter, egErr,
                 pullRet, nextFile, art, owner, gpc, userRd, opened, firstSent,
                 fate, snapshot>>
  /\ UNCHANGED datumVars

\* ===================================================== datum iterators
\* *pps.Input: exactly one of Pfs, Union, Cross, Cron is set in a recognised
\* input; "join" and "git" stand for the inputs whose case is commented out.
\* matches: the number of files the content store's glob walk finds for the
\* input's repo and commit.
Input(kind, name, commit, matches, children) ==
  [kind |-> kind, name |-> name, commit |-> commit, matches |-> matches,
   children |-> children]
PFSInput(name, commit, matches) == Input("pfs", name, commit, matches, <<>>)
CronInput(name, commit, matches) == Input("cron", name, commit, matches, <<>>)
UnionInput(children) == Input("union", "", "", 0, children)
CrossInput(children) == Input("cross", "", "", 0, children)
NilInput == Input("nil", "", "", 0, <<>>)

\* an IteratorV2 value, and the nil one
Iterator(kind, in, iterators) == [kind |-> kind, input |-> in, iterators |-> iterators]
NilIterator == Iterator("nil", NilInput, <<>>)

\* a constructor that keeps the input whatever its commit
newPFSIteratorV2Keep(in) == Iterator("pfs", in, <<>>)

\* &pfsIteratorV2{} for an empty commit, else the iterator over the input
newPFSIteratorV2(in) ==
  IF in.commit = "" THEN Iterator("pfs", NilInput, <<>>)
  ELSE Iterator("pfs", in, <<>>)

\* the cron input as a PFS input: same name, repo and commit, glob "/*"
newCronIteratorV2(in) == newPFSIteratorV2(PFSInput(in.name, in.commit, in.matches))

RECURSIVE NewIteratorV2(_)
RECURSIVE newIterators(_, _)

\* a loop that leaves out the children it cannot build
newIteratorsSkip(inputs, built) ==
  IF inputs = <<>> THEN [iterators |-> built, err |-> Nil]
  ELSE LET di == NewIteratorV2(Head(inputs))
       IN IF di.err # Nil THEN newIterators(Tail(inputs), built)
          ELSE newIterators(Tail(inputs), Append(built, di.it))

\* the loop of newUnionIteratorV2 and newCrossIteratorV2: build the children
\* in order, return the first error
newIterators(inputs, built) ==
  IF inputs = <<>> THEN [iterators |-> built, err |-> Nil]
  ELSE LET di == NewIteratorV2(Head(inputs))
       IN IF di.err # Nil THEN [iterators |-> <<>>, err |-> di.err]
          ELSE newIterators(Tail(inputs), Append(built, di.it))

newUnionIteratorV2(inputs) ==
  LET r == newIterators(inputs, <<>>)
  IN IF r.err # Nil THEN [it |-> NilIterator, err |-> r.err]
     ELSE [it |-> Iterator("union", NilInput, r.iterators), err |-> Nil]

newCrossIteratorV2(inputs) ==
  LET r == newIterators(inputs, <<>>)
  IN IF r.err # Nil THEN [it |-> NilIterator, err |-> r.err]
     ELSE [it |-> Iterator("cross", NilInput, r.iterators), err |-> Nil]

NewIteratorV2(in) ==
  CASE in.kind = "pfs" -> [it |-> newPFSIteratorV2(in), err |-> Nil]
    [] in.kind = "union" -> newUnionIteratorV2(in.children)
    [] in.kind = "cross" -> newCrossIteratorV2(in.children)
    [] in.kind = "cron" -> [it |-> newCronIteratorV2(in), err |-> Nil]
    [] OTHER -> [it |-> NilIterator, err |-> Err("unrecognized input type", 0)]

\* common.InputV2 for the i-th file the glob matched
InputV2(in, i) == [name |-> in.name, file |-> i]

\* A []*common.InputV2 value is a slice header: the number of its backing
\* array in the heap (0: the nil slice), its length and its capacity.
Slice(arr, len, cap) == [arr |-> arr, len |-> len, cap |-> cap]
NilSlice == Slice(0, 0, 0)

\* the elements of slice s, as its backing array holds them now
Elems(s, heap) == IF s.arr = 0 THEN <<>> ELSE SubSeq(heap[s.arr], 1, s.len)

\* []*common.InputV2{...}: a new array that holds exactly the elements
literal(elems, heap) ==
  [slice |-> Slice(Len(heap) + 1, Len(elems), Len(elems)),
   heap |-> Append(heap, elems)]

\* the allocator's size classes, in bytes, up to 256
SizeClasses ==
  {8, 16, 32} \cup {16 * c : c \in 3..16}
    \cup (IF build.class24 THEN {24} ELSE {})

\* the size class an allocation of reqSize bytes is served from
roundupsize(reqSize) ==
  CHOOSE c \in SizeClasses :
    c >= reqSize /\ \A d \in SizeClasses : d >= reqSize => c <= d

\* the capacity append gives the array it allocates when oldCap is too small
\* for the needed length: twice oldCap, or the needed length when that is
\* more, rounded up to what the size class holds
growslice(oldCap, needed) ==
  LET newcap == IF needed > 2 * oldCap THEN needed ELSE 2 * oldCap
  IN roundupsize(newcap * build.ptrSize) \div build.ptrSize

\* The state of an Iterate call: the datums the caller's cb has received and
\* the error it has returned; cb fails at its failAt-th invocation.
\* first: the first error anything returned; late: something was invoked
\* after an error had been returned; globs: the glob walks asked of the store.
\* heap: the backing arrays allocated so far; held: the slices cb received.
IterState(failAt) ==
  [calls |-> <<>>, err |-> Nil, failAt |-> failAt, first |-> Nil,
   late |-> FALSE, globs |-> 0, heap |-> <<>>, held |-> <<>>]

\* a callee returns error e
Raise(st, e) ==
  [st EXCEPT !.err = e, !.first = IF @ = Nil THEN e ELSE @]

\* the caller's cb, which sees the slice's elements and may keep the slice
cb(st, inputs) ==
  LET n == Len(st.calls) + 1
      e == IF n = st.failAt THEN Err("cb", n) ELSE Nil
  IN Raise([st EXCEPT !.calls = Append(@, Elems(inputs, st.heap)),
                      !.held = Append(@, inputs),
                      !.late = @ \/ st.err # Nil], e)

\* append with its arguments swapped
appendSwapped(crossInputs, inputs, heap) ==
  literal(inputs \o Elems(crossInputs, heap), heap)

\* append(crossInputs, inputs...): with room in crossInputs' array the new
\* elements are written into that array after the first len(crossInputs),
\* and the result shares it; without, a larger array is allocated and the
\* elements are copied
append(crossInputs, inputs, heap) ==
  LET n == crossInputs.len + Len(inputs)
  IN IF inputs = <<>> THEN [slice |-> crossInputs, heap |-> heap]
     ELSE IF n <= crossInputs.cap
       THEN [slice |-> Slice(crossInputs.arr, n, crossInputs.cap),
             heap |-> [heap EXCEPT ![crossInputs.arr] =
                         SubSeq(@, 1, crossInputs.len) \o inputs
                           \o SubSeq(@, n + 1, Len(@))]]
       ELSE [slice |-> Slice(Len(heap) + 1, n, growslice(crossInputs.cap, n)),
             heap |-> Append(heap, Elems(crossInputs, heap) \o inputs)]

\* A callback is the caller's cb, or the function literal of iterate, which
\* closes over crossInputs, iterators[1:] and its own callback.
TopCb == [kind |-> "cb"]
Closure(crossInputs, iterators, k) ==
  [kind |-> "closure", crossInputs |-> crossInputs, iterators |-> iterators,
   cb |-> k]

RECURSIVE Iterate(_, _, _)
RECURSIVE iterate(_, _, _, _)
RECURSIVE Call(_, _, _)
RECURSIVE GlobFileV2(_, _, _, _)
RECURSIVE unionIterate(_, _, _)

\* invoke callback k with a list of inputs
Call(k, inputs, st) ==
  IF k.kind = "cb" THEN cb(st, inputs)
  ELSE LET r == append(k.crossInputs, Elems(inputs, st.heap), st.heap)
       IN iterate(r.slice, k.iterators, k.cb, [st EXCEPT !.heap = r.heap])

\* a commit the content store fails to walk to its end
BadCommit == "x"

\* the content store's glob walk from the i-th match on: the callback once
\* per matched file, with a one-element list, until it returns an error
GlobFileV2(in, i, k, st) ==
  IF i > in.matches
    THEN IF in.commit = BadCommit THEN Raise(st, Err("glob", in.matches)) ELSE st
  ELSE LET l == literal(<<InputV2(in, i)>>, st.heap)
           st2 == Call(k, l.slice, [st EXCEPT !.heap = l.heap])
       IN IF st2.err # Nil THEN st2 ELSE GlobFileV2(in, i + 1, k, st2)

pfsIterate(pi, k, st) ==
  IF pi.input = NilInput THEN st
  ELSE GlobFileV2(pi.input, 1, k, [st EXCEPT !.globs = @ + 1])

\* the union ranging over its children from the last to the first
unionIterateBackwards(iterators, k, st) ==
  IF iterators = <<>> THEN st
  ELSE LET n == Len(iterators)
           st2 == Iterate(iterators[n], k, st)
       IN IF st2.err # Nil THEN st2
          ELSE unionIterate(SubSeq(iterators, 1, n - 1), k, st2)

\* a union that goes on to its next child whatever the last one returned
unionIterateOn(iterators, k, st) ==
  IF iterators = <<>> THEN st
  ELSE unionIterate(Tail(iterators), k, Iterate(Head(iterators), k, st))

\* for _, di := range ui.iterators: Iterate each, return the first error
unionIterate(iterators, k, st) ==
  IF iterators = <<>> THEN st
  ELSE LET st2 == Iterate(Head(iterators), k, st)
       IN IF st2.err # Nil THEN st2 ELSE unionIterate(Tail(iterators), k, st2)

\* iterate stopping one child early
iterateShort(crossInputs, iterators, k, st) ==
  IF Len(iterators) <= 1 THEN Call(k, crossInputs, st)
  ELSE Iterate(iterators[1], Closure(crossInputs, Tail(iterators), k), st)

iterate(crossInputs, iterators, k, st) ==
  IF Len(iterators) = 0 THEN Call(k, crossInputs, st)
  ELSE Iterate(iterators[1], Closure(crossInputs, Tail(iterators), k), st)

crossIterate(ci, k, st) == iterate(NilSlice, ci.iterators, k, st)

\* the entries decoded from the j-th member of the archive, n of them
TarEntry(j, i) == [name |-> "tar", file |-> 10 * j + i]
TarEntries(j, n) == [i \in 1..n |-> TarEntry(j, i)]

\* the for loop of fileSetIterator.Iterate at member j: tr.Next() ends the
\* loop at io.EOF; the member's entries are decoded up to its end; then
\* "return cb(inputs)" leaves Iterate, so the loop body runs once at most
tarLoop(j, k, st) ==
  IF j > Len(archive.members) THEN st
  ELSE LET m == archive.members[j]
       IN IF m.bad THEN Raise(st, Err("decode", j))
          ELSE LET r == append(NilSlice, TarEntries(j, m.n), st.heap)
               IN Call(k, r.slice, [st EXCEPT !.heap = r.heap])

fileSetIterate(k, st) ==
  IF archive.getErr THEN Raise(st, Err("GetTarV2", 0))
  ELSE tarLoop(1, k, st)

\* an Iterate method is entered; it.kind selects the implementation
Iterate(it, k, st) ==
  LET s0 == [st EXCEPT !.late = @ \/ st.err # Nil]
  IN CASE it.kind = "pfs" -> pfsIterate(it, k, s0)
       [] it.kind = "union" -> unionIterate(it.iterators, k, s0)
       [] it.kind = "cross" -> crossIterate(it, k, s0)
       [] it.kind = "fileset" -> fileSetIterate(k, s0)

\* ------------------------------------------------- the inputs explored
Repos == {"A", "B"}
Leaves ==
  {PFSInput(r, "c", n) : r \in Repos, n \in 0..MaxYield}
    \cup {PFSInput("A", BadCommit, n) : n \in {0, 1}}
    \cup {PFSInput(r, "", MaxYield) : r \in Repos}
    \cup {CronInput("T", c, 1) : c \in {"", "c"}}
    \cup {Input(k, "J", "c", 1, <<>>) : k \in {"join", "git"}}
Seqs(S, n) == UNION {[1..m -> S] : m \in 0..n}
Inner ==
  {Input(k, "", "", 0, ch) :
     k \in {"union", "cross"},
     ch \in {<<>>, <<PFSInput("A", "c", 1), Input("git", "J", "c", 1, <<>>)>>}
             \cup {<<PFSInput("A", "c", 1), PFSInput("B", "c", n)>> : n \in 0..MaxYield}}
\* crosses of 3 to MaxWide inputs that yield one file each, the last n files
Wide ==
  {CrossInput([i \in 1..m |-> IF i < m THEN PFSInput("A", "c", 1)
                                       ELSE PFSInput("B", "c", n)]) :
     m \in 3..MaxWide, n \in 1..MaxYield}

Inputs ==
  Leaves \cup Wide \cup
  {Input(k, "", "", 0, ch) :
     k \in {"union", "cross"}, ch \in Seqs(Leaves \cup Inner, MaxChildren)}

\* the tar streams explored: GetTarV2 fails, or serves up to MaxMembers
\* members, each holding n entries or bytes that do not decode
NoArchive == [getErr |-> FALSE, members |-> <<>>]
Members == [n : 0..MaxYield, bad : BOOLEAN]
Archives == [getErr : BOOLEAN, members : Seqs(Members, MaxMembers)]
NoProbe == [first |-> Nil, late |-> FALSE, globs |-> 0]

\* the builds explored: 32-bit and 64-bit pointers, allocators without and
\* with the 24-byte size class
Builds == [ptrSize : {4, 8}, class24 : BOOLEAN]

\* no iterator is being built or run
IterIdle ==
  /\ input = NilInput
  /\ cbFailAt = 0
  /\ iter = NilIterator
  /\ calls = <<>>
  /\ iterRet = Nil
  /\ iterPc = "done"
  /\ archive = NoArchive
  /\ probe = NoProbe
  /\ build = [ptrSize |-> 8, class24 |-> FALSE]
  /\ retained = <<>>

\* a caller is about to build an iterator from an input tree, or a FileSet
\* iterator over an archive
IterInit ==
  /\ \/ input \in Inputs /\ archive = NoArchive
     \/ input = NilInput /\ archive \in Archives
  /\ cbFailAt \in {0, 1, 2}
  /\ iter = NilIterator
  /\ calls = <<>>
  /\ iterRet = Nil
  /\ iterPc = "new"
  /\ probe = NoProbe
  /\ build \in Builds
  /\ retained = <<>>

\* it := NewFileSetIterator(pachClient, repo, commit)
NewFileSetIterator ==
  /\ iterPc = "new"
  /\ input = NilInput
  /\ iter' = Iterator("fileset", NilInput, <<>>)
  /\ iterPc' = "ready"
  /\ UNCHANGED <<input, cbFailAt, calls, iterRet, archive, probe, build,
                 retained>>
  /\ UNCHANGED <<pullerVars, pushVars>>

\* it, err := NewIteratorV2(pachClient, input)
Construct ==
  /\ iterPc = "new"
  /\ input # NilInput
  /\ LET r == NewIteratorV2(input)
     IN /\ iter' = r.it
        /\ iterRet' = r.err
        /\ iterPc' = IF r.err # Nil THEN "done" ELSE "ready"
  /\ UNCHANGED <<input, cbFailAt, calls, archive, probe, build, retained>>
  /\ UNCHANGED <<pullerVars, pushVars>>

\* err := it.Iterate(cb)
RunIterate ==
  /\ iterPc = "ready"
  /\ LET st == Iterate(iter, TopCb, IterState(cbFailAt))
     IN /\ calls' = st.calls
        /\ iterRet' = st.err
        /\ probe' = [first |-> st.first, late |-> st.late, globs |-> st.globs]
        /\ retained' = [j \in 1..Len(st.held) |-> Elems(st.held[j], st.heap)]
  /\ iterPc' = "done"
  /\ UNCHANGED <<input, cbFailAt, iter, archive, build>>
  /\ UNCHANGED <<pullerVars, pushVars>>

\* ============================================================== PushFile
\* pfs.ChunkSize, scaled down to two bytes
ChunkSize == 2
Bytes == {0, 1}

\* pfs.EncodeHash(hash.Sum(nil)) of the bytes written to the hash: a digest
\* that differs for different byte strings
RECURSIVE EncodeHash(_)
EncodeHash(bs) ==
  IF bs = <<>> THEN 1 ELSE 2 * EncodeHash(SubSeq(bs, 1, Len(bs) - 1)) + bs[Len(bs)]

\* the messages of the errors InspectFile returns, as words
Messages ==
  << <<"file", "not", "found">>, <<"not", "found">>,
     <<"repo", "not", "found", "in", "pfs">>, <<"found", "not">>,
     <<"deadline", "exceeded">> >>

\* err.Error() of the error InspectFile returned
Error(err) == Messages[err[2]]

\* strings.Contains(s, substr)
Contains(str, substr) ==
  \E i \in 0..(Len(str) - Len(substr)) : SubSeq(str, i + 1, i + Len(substr)) = substr

\* a test for the word "found" alone
isNotExistLoose(err) == Contains(Error(err), <<"found">>)

isNotExist(err) == Contains(Error(err), <<"not", "found">>)

\* io.CopyN(hash, osFile, pfs.ChunkSize) at position pos: the bytes hashed,
\* the new position, and io.EOF when fewer than ChunkSize bytes were left
CopyN(local, pos, fails) ==
  IF fails THEN [err |-> Err("read", pos), bytes |-> <<>>, pos |-> pos]
  ELSE IF Len(local) - pos >= ChunkSize
    THEN [err |-> Nil, bytes |-> SubSeq(local, pos + 1, pos + ChunkSize),
          pos |-> pos + ChunkSize]
    ELSE [err |-> Err("EOF", 0), bytes |-> SubSeq(local, pos + 1, Len(local)),
          pos |-> Len(local)]

\* for i, object = range fileInfo.Objects: idx is the next index of the
\* range, i the value the loop last assigned (0 before the first iteration)
RECURSIVE compareLoop(_, _, _, _)

\* a loop that counts the differing chunk among the matching ones
compareLoopPast(in, idx, i, pos) ==
  IF idx >= Len(in.objects) THEN [i |-> i, err |-> Nil, pos |-> pos]
  ELSE LET r == CopyN(in.local, pos, in.ioFail = "read")
       IN IF r.err = Err("EOF", 0) THEN [i |-> idx, err |-> Nil, pos |-> r.pos]
          ELSE IF r.err # Nil THEN [i |-> idx, err |-> r.err, pos |-> r.pos]
          ELSE IF in.objects[idx + 1] # EncodeHash(r.bytes)
            THEN [i |-> idx + 1, err |-> Nil, pos |-> r.pos]
          ELSE compareLoop(in, idx + 1, idx, r.pos)

compareLoop(in, idx, i, pos) ==
  IF idx >= Len(in.objects) THEN [i |-> i, err |-> Nil, pos |-> pos]
  ELSE LET r == CopyN(in.local, pos, in.ioFail = "read")
       IN IF r.err = Err("EOF", 0) THEN [i |-> idx, err |-> Nil, pos |-> r.pos]
          ELSE IF r.err # Nil THEN [i |-> idx, err |-> r.err, pos |-> r.pos]
          ELSE IF in.objects[idx + 1] # EncodeHash(r.bytes)
            THEN [i |-> idx, err |-> Nil, pos |-> r.pos]
          ELSE compareLoop(in, idx + 1, idx, r.pos)

NoPush == [ret |-> Nil, pos |-> 0, ops |-> <<>>]

\* PushFile(c, pfc, pfsFile, osFile)
PushFileResult(in) ==
  IF in.inspectErr # Nil /\ ~isNotExist(in.inspectErr)
    THEN [NoPush EXCEPT !.ret = in.inspectErr]
  ELSE
    LET l == IF in.inspectErr = Nil
               THEN compareLoop(in, 0, 0, 0)
               ELSE [i |-> 0, err |-> Nil, pos |-> 0]
        seek == [op |-> "Seek", arg |-> l.i * ChunkSize, from |-> l.pos]
        put == [op |-> "PutFileOverwrite", arg |-> l.i, from |-> l.i * ChunkSize]
    IN IF l.err # Nil THEN [ret |-> l.err, pos |-> l.pos, ops |-> <<>>]
       ELSE IF in.ioFail = "seek"
         THEN [ret |-> Err("seek", 0), pos |-> l.pos, ops |-> <<seek>>]
       ELSE [ret |-> IF in.ioFail = "put" THEN Err("put", 0) ELSE Nil,
             pos |-> l.i * ChunkSize, ops |-> <<seek, put>>]

\* the calls explored: InspectFile fails with one of Messages, or returns up
\* to MaxObjects object hashes; osFile holds up to MaxLocalLen bytes
Hashes == {EncodeHash(c) : c \in [1..ChunkSize -> Bytes]}
PushInputs ==
  [inspectErr : {Nil}, objects : Seqs(Hashes, MaxObjects),
   local : Seqs(Bytes, MaxLocalLen), ioFail : {"none", "read", "seek", "put"}]
    \cup
  [inspectErr : {Err("inspect", m) : m \in 1..Len(Messages)}, objects : {<<>>},
   local : Seqs(Bytes, MaxLocalLen), ioFail : {"none", "seek", "put"}]

NoPushInput ==
  [inspectErr |-> Nil, objects |-> <<>>, local |-> <<>>, ioFail |-> "none"]

\* no PushFile call is being made
PushIdle ==
  /\ pushIn = NoPushInput
  /\ pushOut = NoPush
  /\ pushPc = "done"

PushInit ==
  /\ pushIn \in PushInputs
  /\ pushOut = NoPush
  /\ pushPc = "new"

PushFile ==
  /\ pushPc = "new"
  /\ pushOut' = PushFileResult(pushIn)
  /\ pushPc' = "done"
  /\ UNCHANGED pushIn
  /\ UNCHANGED <<pullerVars, iterVars>>

\* ------------------------------------------------------ specification
Init == NewPuller /\ IterIdle /\ PushIdle

Next ==
  \/ Pull
  \/ PullDiff
  \/ PullTree
  \/ DiffFileError
  \/ \E f \in Files : WalkError(f)
  \/ \E f \in Files : VisitDir(f)
  \/ \E f \in Files : VisitPipe(f)
  \/ \E f \in Files : VisitPipeError(f)
  \/ \E f \in Files : VisitEmpty(f)
  \/ \E f \in Files : VisitEmptyError(f)
  \/ \E f \in Files : VisitEager(f)
  \/ PullWait
  \/ \E f \in Files : WorkerAcquire(f)
  \/ \E f \in Files, o \in Outcomes : WorkerFinish(f, o)
  \/ \E f \in Files : WriterOpen(f)
  \/ \E f \in Files : WriterOpenError(f)
  \/ \E f \in Files, closeOk \in BOOLEAN : WriterLock(f, closeOk)
  \/ \E f \in Files, o \in Outcomes : WriterFetch(f, o)
  \/ \E f \in Files : UserOpen(f)
  \/ \E f \in Files : UserClose(f)
  \/ CleanUpBegin
  \/ \E okSet \in SUBSET Files, first \in 0..NumFiles : CleanUpLock(okSet, first)
  \/ \E failSet \in SUBSET Files, first \in 0..NumFiles : CleanUpWait(failSet, first)
  \/ CleanUpSize
  \/ CleanUpReturn

Spec == Init /\ [][Next]_vars

\* The thread inside Pull, PullDiff or PullTree is scheduled: it goes on
\* with its walk and returns from eg.Wait() once the group is empty.
CallScheduled ==
  /\ WF_vars(PullWait)
  /\ WF_vars(\E f \in Files : WalkError(f) \/ VisitDir(f) \/ VisitPipe(f)
                   \/ VisitPipeError(f) \/ VisitEmpty(f) \/ VisitEmptyError(f)
                   \/ VisitEager(f))

\* The goroutines and CleanUp are scheduled: a step of theirs that stays
\* possible is eventually taken.  Nothing makes an open, a fetch or a Close
\* fail, so the failing steps carry no fairness; nor do the user's.
Scheduled ==
  /\ CallScheduled
  /\ \A f \in Files : WF_vars(WriterOpen(f))
  /\ \A f \in Files : WF_vars(\E closeOk \in BOOLEAN : WriterLock(f, closeOk))
  /\ \A f \in Files : WF_vars(\E o \in Outcomes : WriterFetch(f, o))
  /\ \A f \in Files : WF_vars(WorkerAcquire(f))
  /\ \A f \in Files : WF_vars(\E o \in Outcomes : WorkerFinish(f, o))
  /\ WF_vars(\E okSet \in SUBSET Files, first \in 0..NumFiles : CleanUpLock(okSet, first))
  /\ WF_vars(\E failSet \in SUBSET Files, first \in 0..NumFiles : CleanUpWait(failSet, first))
  /\ WF_vars(CleanUpSize)
  /\ WF_vars(CleanUpReturn)

FairSpec == Spec /\ Scheduled

\* only the calling thread is scheduled: no reader, writer, worker or
\* CleanUp has to take a step
CallFairSpec == Spec /\ CallScheduled

\* the iterators alone, over every input of Inputs
IterNext == Construct \/ NewFileSetIterator \/ RunIterate
IterStart == NewPuller /\ IterInit /\ PushIdle
IterSpec == IterStart /\ [][IterNext]_vars

\* PushFile alone, over every call of PushInputs
PushStart == NewPuller /\ IterIdle /\ PushInit
PushNext == PushFile
PushSpec == PushStart /\ [][PushNext]_vars

\* ------------------------------------------------ iterator properties
\* the groups an iterator yields to a callback that never fails, in order
Yield(it) == Iterate(it, TopCb, IterState(0)).calls

\* a finished, successful run of a cross / union iterator
CrossDone == iterPc = "done" /\ iterRet = Nil /\ iter.kind = "cross"
UnionDone == iterPc = "done" /\ iterRet = Nil /\ iter.kind = "union"

RECURSIVE Product(_)
Product(ns) == IF ns = <<>> THEN 1 ELSE Head(ns) * Product(Tail(ns))
RECURSIVE Sum(_)
Sum(ns) == IF ns = <<>> THEN 0 ELSE Head(ns) + Sum(Tail(ns))
RECURSIVE Flatten(_)
Flatten(ss) == IF ss = <<>> THEN <<>> ELSE Head(ss) \o Flatten(Tail(ss))

\* the yields of the children of iter, and how many groups each has
ChildYields == [i \in 1..Len(iter.iterators) |-> Yield(iter.iterators[i])]
ChildCounts == [i \in 1..Len(iter.iterators) |-> Len(ChildYields[i])]

\* every way to choose one group index per child
Choices == {c \in [1..Len(iter.iterators) -> 1..(MaxYield + 2)] :
              \A i \in 1..Len(iter.iterators) : c[i] <= ChildCounts[i]}

\* the j-th choice in lexicographic order, child 1 most significant
LexChoice(j) ==
  [i \in 1..Len(iter.iterators) |->
     (((j - 1) \div Product(SubSeq(ChildCounts, i + 1, Len(iter.iterators))))
        % ChildCounts[i]) + 1]

\* C8: a cross iterator whose children yield n0..nk groups invokes cb exactly
\* n0*...*nk times, each time with a list as long as the groups of one choice
\* of a group per child together; a child with no groups means no invocation.
CrossCardinality ==
  CrossDone =>
    /\ Len(calls) = Product(ChildCounts)
    /\ \A j \in 1..Len(calls) :
         \E c \in Choices :
           Len(calls[j]) =
             Sum([i \in 1..Len(iter.iterators) |-> Len(ChildYields[i][c[i]])])
    /\ (\E i \in 1..Len(iter.iterators) : ChildCounts[i] = 0) => calls = <<>>

\* two children with 2 and 3 groups, one of them of length 2: 6 invocations
CrossCardinalityWitness ==
  /\ CrossDone
  /\ Len(iter.iterators) = 2
  /\ Len(calls) = 6
  /\ \E j \in 1..Len(calls) : Len(calls[j]) = 3

\* a cross with a child that yields nothing, next to one that yields groups
CrossEmptyChildWitness ==
  /\ CrossDone
  /\ \E i, j \in 1..Len(iter.iterators) : ChildCounts[i] = 0 /\ ChildCounts[j] > 0
  /\ calls = <<>>

\* C9: the cross iterator delivers the datums in lexicographic order of the
\* children's group indices, child 0 slowest and the last child fastest, each
\* datum the concatenation of the chosen groups in child order.
CrossOrder ==
  CrossDone =>
    \A j \in 1..Len(calls) :
      calls[j] =
        Flatten([i \in 1..Len(iter.iterators) |-> ChildYields[i][LexChoice(j)[i]]])

\* A = [a], B = [b1, b2] yields [a, b1] then [a, b2]
CrossOrderWitness ==
  /\ CrossDone
  /\ input.children = <<PFSInput("A", "c", 1), PFSInput("B", "c", 2)>>
  /\ calls = << <<InputV2(input.children[1], 1), InputV2(input.children[2], 1)>>,
                <<InputV2(input.children[1], 1), InputV2(input.children[2], 2)>> >>

\* C10: the union iterator's invocations of cb are the concatenation of its
\* children's yielded groups, children in declaration order, each group
\* unchanged, duplicates kept, nothing merged or sorted.
UnionConcatenation ==
  UnionDone => calls = Flatten(ChildYields)

\* the same input declared twice, after a different one: its groups twice
UnionConcatenationWitness ==
  /\ UnionDone
  /\ Len(iter.iterators) = 2
  /\ iter.iterators[1] = iter.iterators[2]
  /\ Len(calls) = 2 * MaxYield
  /\ \E i, j \in 1..Len(calls) : i # j /\ calls[i] = calls[j]

\* an Iterate call on a built iterator has returned
IterateDone == iterPc = "done" /\ iter # NilIterator

\* C11: when cb or a sub-iterator returns an error, iteration stops at once
\* whatever the nesting: cb is not invoked again, no further child iterator
\* is started, and the outermost Iterate returns that same error.
ErrorAborts ==
  IterateDone =>
    /\ ~probe.late
    /\ iterRet = probe.first
    /\ calls = SubSeq(Yield(iter), 1, Len(calls))
    /\ cbFailAt \in 1..Len(Yield(iter)) =>
         Len(calls) = cbFailAt /\ iterRet = Err("cb", cbFailAt)
    /\ iterRet # Nil /\ iterRet[1] # "cb" => calls = Yield(iter)

\* a cross over a union and another child: cb failed at its second
\* invocation of at least four, and Iterate returned that error
ErrorAbortsWitness ==
  /\ IterateDone
  /\ iter.kind = "cross"
  /\ Len(iter.iterators) = 2
  /\ iter.iterators[1].kind = "union"
  /\ Len(Yield(iter)) >= 4
  /\ Len(calls) = 2
  /\ iterRet = Err("cb", 2)

\* a union whose first child's glob walk failed: the second child, which
\* has files, was not started
SubIteratorErrorWitness ==
  /\ IterateDone
  /\ iter.kind = "union"
  /\ Len(iter.iterators) = 2
  /\ iterRet = Err("glob", 1)
  /\ Len(calls) = 1
  /\ probe.globs = 1
  /\ Len(Yield(iter.iterators[2])) = MaxYield

\* a PFS or cron input with an empty commit
EmptyCommit(in) == in.kind \in {"pfs", "cron"} /\ in.commit = ""

\* C12: a PFS or cron input whose commit is empty yields no datum and no
\* error, and the content store is not asked; as a child of a cross it makes
\* the cross yield nothing; as a child of a union it adds nothing and the
\* other children are yielded.
EmptyCommitYieldsNothing ==
  IterateDone =>
    /\ EmptyCommit(input) => calls = <<>> /\ iterRet = Nil /\ probe.globs = 0
    /\ (input.kind = "cross"
          /\ \E i \in 1..Len(input.children) : EmptyCommit(input.children[i]))
         => calls = <<>>
    /\ (input.kind = "union" /\ iterRet = Nil) =>
         calls = Flatten([i \in 1..Len(input.children) |->
                            IF EmptyCommit(input.children[i]) THEN <<>>
                            ELSE ChildYields[i]])

\* a union of an empty-commit input, whose repo has files, and an input
\* with files: only the latter's files were yielded
EmptyCommitYieldsNothingWitness ==
  /\ IterateDone
  /\ input.kind = "union"
  /\ Len(input.children) = 2
  /\ EmptyCommit(input.children[1])
  /\ input.children[1].matches > 0
  /\ iterRet = Nil
  /\ Len(calls) = MaxYield
  /\ probe.globs = 1

\* every member of the archive is a stream of one or more entries
ArchiveInFormat ==
  \A j \in 1..Len(archive.members) :
    archive.members[j].bad \/ archive.members[j].n >= 1

\* C13: the FileSet iterator invokes cb once for every member of the tar
\* archive, in archive order, with the entries decoded from that member: m
\* invocations for m members, unless cb or decoding returns an error.
FileSetAllMembers ==
  (/\ IterateDone /\ iter.kind = "fileset" /\ iterRet = Nil
   /\ ArchiveInFormat
   /\ \A j \in 1..Len(archive.members) : ~archive.members[j].bad) =>
    /\ Len(calls) = Len(archive.members)
    /\ \A j \in 1..Len(calls) : calls[j] = TarEntries(j, archive.members[j].n)

\* C19: every datum delivered to cb, by an iterator built from an input
\* tree or by the FileSet iterator over an archive of persisted datums, is a
\* non-empty list of input entries.
DatumNonEmpty ==
  ArchiveInFormat => \A j \in 1..Len(calls) : calls[j] # <<>>

\* C26: a list handed to cb by a cross iterator, alone or inside another
\* iterator, is not modified by the rest of the iteration: a cb that kept
\* the lists finds in each of them, once Iterate has returned, the elements
\* it was invoked with.
DatumNotModified ==
  IterateDone => retained = calls

\* the input sets none of Pfs, Union, Cross, Cron
Unrecognized(in) == in.kind \notin {"pfs", "union", "cross", "cron"}

\* ... or holds such an input somewhere in its subtree
RECURSIVE HasUnrecognized(_)
HasUnrecognized(in) ==
  \/ Unrecognized(in)
  \/ \E i \in 1..Len(in.children) : HasUnrecognized(in.children[i])

\* C21: NewIteratorV2 returns the "unrecognized input type" error and no
\* iterator for an input that is none of PFS, union, cross, cron (join and
\* git among them), and for a union or cross that holds such an input at any
\* depth; nothing is iterated then.  Any other input gets an iterator.
ConfigurationError ==
  (iterPc # "new" /\ input # NilInput) =>
    IF HasUnrecognized(input)
      THEN /\ iterRet = Err("unrecognized input type", 0)
           /\ iter = NilIterator
           /\ iterPc = "done"
           /\ calls = <<>>
      ELSE iter # NilIterator /\ (iterPc = "ready" => iterRet = Nil)

\* a cross of an input with files and a union that holds a git input as its
\* second child: construction returned the error
ConfigurationErrorWitness ==
  /\ iterPc = "done"
  /\ input.kind = "cross"
  /\ Len(input.children) = 2
  /\ input.children[1].kind = "pfs"
  /\ input.children[1].matches > 0
  /\ input.children[2].kind = "union"
  /\ Len(input.children[2].children) = 2
  /\ input.children[2].children[2].kind = "git"
  /\ iterRet = Err("unrecognized input type", 0)
  /\ iter = NilIterator

\* ============================================================ properties

\* C1: after CleanUp has returned no goroutine started by a Pull, PullDiff or
\* PullTree call is still running, neither a pipe writer nor an eager-copy
\* worker.
NoGoroutineAfterCleanUp ==
  cpc = "returned" => \A f \in Files : gpc[f] \in {"none", "done"}

\* C2: a CleanUp that has started eventually returns.
CleanUpReturns == (cpc \in {"lock", "wait", "size", "reset"}) ~> (cpc = "returned")

\* C3: if a pipe writer ended with an error before CleanUp returned, CleanUp
\* returns a non-nil error.
WriterErrorSurfaced ==
  cpc = "returned" => (last.failed > 0 => retErr # Nil)

\* C4: the error slot holds exactly the first error sent to it since it was
\* last received from (later sends are dropped), and CleanUp returns the
\* error that was in the slot when it started, else its first teardown error
\* (first failed open, else first failed close), else nil.
FirstErrorWins ==
  /\ errCh = IF firstSent = Nil THEN <<>> ELSE <<firstSent>>
  /\ cpc = "returned" =>
       retErr = IF last.slot0 # Nil THEN last.slot0 ELSE last.td

\* two writers failed before CleanUp began, and CleanUp returned the first
FirstErrorWinsWitness ==
  /\ cpc = "returned"
  /\ last.failed >= 2
  /\ errCh = <<>>
  /\ last.slot0 # Nil
  /\ retErr = last.slot0

\* C5: the byte count CleanUp returns is the sum of the sizes of the files
\* and pipes whose fetch completed without error since the Puller was
\* created or last cleaned up.
ByteCountExact ==
  cpc = "returned" => retBytes = SumBytes(last.ok)

\* C6: when a Pull, PullDiff or PullTree call has returned, no eager-copy
\* worker of its error group is still running.
PullDrainsGroup ==
  pullPc = "idle" => Running(call.n) = {}

\* C7: a Pull, PullDiff or PullTree call with pipes=true eventually returns
\* even if no reader ever opens a FIFO it created, and a pipe writer gets past
\* its write-side open only once user code or CleanUp has opened the read side.
PipeWritersNotAwaited ==
  /\ (pullPc # "idle" /\ call.pipes) ~> (pullPc = "idle")
  /\ [](\A f \in Files :
          gpc[f] \in {"wlock", "wfetch"} => userRd[f] # "never" \/ f \in CleanRd)

\* a pipes=true call has returned without error while every writer it
\* started is still in its open, no reader having opened any FIFO
PipeWritersNotAwaitedWitness ==
  /\ pullPc = "idle"
  /\ pullRet = Nil
  /\ cpc = "idle"
  /\ wg = NumFiles
  /\ \A f \in Files : art[f] = "fifo" /\ gpc[f] = "wopen" /\ userRd[f] = "never"

\* C15: every non-directory file a Pull visits gets exactly one artifact at
\* its path, whatever the pipes and emptyFiles flags: a FIFO with its writer
\* when pipes is set, else a zero-byte placeholder when emptyFiles is set,
\* else an eagerly copied regular file; a FIFO never shares its path with an
\* eager copy or a regular file.
ModeExclusive ==
  [][\A f \in Files :
       /\ (Visiting(f) /\ call.kind = "Pull" /\ call'.cur = call.cur + 1
             /\ art'[f] # "dir") =>
            /\ call.pipes => art'[f] = "fifo" /\ gpc'[f] = "wopen"
            /\ (~call.pipes /\ call.emptyFiles) =>
                 art'[f] = "empty" /\ gpc'[f] = "none"
            /\ (~call.pipes /\ ~call.emptyFiles) =>
                 art'[f] = "none" /\ gpc'[f] = "eacq"
       /\ art[f] = "fifo" => art'[f] \in {"fifo", "none"}
       /\ art'[f] = "fifo" => gpc'[f] \notin {"eacq", "efetch"}
       /\ (art[f] # "file" /\ art'[f] = "file") => gpc[f] = "efetch"]_vars

\* a Pull with both flags set has made a FIFO, and only a FIFO, for a file
ModeExclusiveWitness ==
  /\ pullPc # "idle"
  /\ call.kind = "Pull"
  /\ call.pipes
  /\ call.emptyFiles
  /\ \E f \in Files : owner[f] = call.n /\ art[f] = "fifo" /\ gpc[f] = "wopen"

\* C16: with emptyFiles=true and pipes=false, a Pull or PullDiff call
\* fetches nothing: no worker is started for any file it walks, new or old,
\* and every file it makes is a zero-byte placeholder.
EmptyModeNoFetch ==
  (pullPc # "idle" /\ call.kind \in {"Pull", "PullDiff"}
     /\ call.emptyFiles /\ ~call.pipes) =>
    \A f \in Files :
      owner[f] = call.n => gpc[f] = "none" /\ art[f] \in {"none", "empty", "dir"}

\* C17: the eager-copy fetches of a call that are in progress at the same
\* time never exceed the call's concurrency; pipe writers take no permit.
BoundedConcurrency ==
  \A n \in Files : Permits(n) <= limiter[n] /\ limiter[n] <= MaxConcurrency

\* a call with concurrency 1: one worker fetches, another waits for the permit
BoundedConcurrencyWitness ==
  \E n \in Files :
    /\ limiter[n] = 1
    /\ Permits(n) = 1
    /\ \E f \in Files : owner[f] = n /\ gpc[f] = "eacq"

\* C18: after CleanUp has returned the byte counter is zero and the set of
\* open pipes is empty.
PullerReset ==
  cpc = "returned" => size = 0 /\ pipes = {}

\* a FIFO made before the Puller's first CleanUp
EarlyFifo(f) ==
  /\ art[f] = "fifo"
  /\ nClean = 0 \/ (nClean = 1 /\ cpc = "returned" /\ f < sessStart)

\* CleanUp has left its locked section
PastLock == cpc \in {"wait", "size", "reset", "returned"}

LateFifo(f) == nClean >= 1 /\ f >= sessStart /\ art[f] = "fifo"

\* C24: cleaned is false from NewPuller until the first CleanUp sets it, and
\* nothing sets it back to false; so the writer of a FIFO made by a call
\* issued after a CleanUp never fetches, and the FIFO's reader gets no data.
CleanedMonotonic ==
  /\ []((nClean = 0 /\ cpc \in {"idle", "lock"}) => ~cleaned)
  /\ [][cleaned => cleaned']_vars
  /\ [](nClean >= 1 => cleaned)
  /\ [](\A f \in Files : LateFifo(f) => gpc[f] # "wfetch" /\ f \notin sessOk)
  /\ [][\A f \in Files : (LateFifo(f) /\ gpc[f] = "wlock" /\ gpc'[f] # "wlock")
                            => gpc'[f] = "done" /\ size' = size]_vars

\* after a CleanUp a call made a FIFO, user code opened and closed it, and
\* its writer has ended without a fetch and without an error
CleanedMonotonicWitness ==
  \E f \in Files :
    /\ LateFifo(f)
    /\ userRd[f] = "closed"
    /\ gpc[f] = "done"
    /\ errCh = <<>>
    /\ sessOk = {}
    /\ size = 0

\* C25: after CleanUp has returned the error slot is empty: no error of a
\* pipe writer of the session it closed is left in errCh for a later CleanUp
\* to return.
ErrorSlotEmpty ==
  cpc = "returned" => errCh = <<>>

\* ---------------------------------------------------- PushFile properties
\* the j-th chunk of the local file (j from 0), when the file holds all of it
HasChunk(j) == (j + 1) * ChunkSize <= Len(pushIn.local)
LocalChunk(j) == SubSeq(pushIn.local, j * ChunkSize + 1, (j + 1) * ChunkSize)

\* the first k chunks match the first k remote objects and chunk k differs
\* from remote object k
DivergesAt(k) ==
  /\ k < Len(pushIn.objects)
  /\ HasChunk(k)
  /\ \A j \in 0..(k - 1) : pushIn.objects[j + 1] = EncodeHash(LocalChunk(j))
  /\ pushIn.objects[k + 1] # EncodeHash(LocalChunk(k))

\* a PushFile call in which no read, seek or put failed has returned
PushDone == pushPc = "done" /\ pushIn.ioFail = "none"

\* the argument of the PutFileOverwrite call PushFile made
PutArg == pushOut.ops[Len(pushOut.ops)].arg
PutMade ==
  pushOut.ops # <<>> /\ pushOut.ops[Len(pushOut.ops)].op = "PutFileOverwrite"

RECURSIVE LeadingMatches(_)
LeadingMatches(j) ==
  IF /\ j < Len(pushIn.objects)
     /\ HasChunk(j)
     /\ pushIn.objects[j + 1] = EncodeHash(LocalChunk(j))
    THEN LeadingMatches(j + 1)
    ELSE j

divergenceIndex == LeadingMatches(0)

\* C23: PushFile compares up to the first divergence or the end of the
\* local or remote data, then seeks the local file to
\* divergenceIndex*ChunkSize, divergenceIndex being the number of leading
\* chunks that hash-matched, and puts from there: when all n remote objects
\* match, from n*ChunkSize, so that no matching chunk is sent again.
CompareStops ==
  (PushDone /\ pushIn.inspectErr = Nil) =>
    /\ PutMade
    /\ pushOut.ops[1] = [op |-> "Seek", arg |-> divergenceIndex * ChunkSize,
                         from |-> IF divergenceIndex < Len(pushIn.objects)
                                    THEN IF HasChunk(divergenceIndex)
                                           THEN (divergenceIndex + 1) * ChunkSize
                                           ELSE Len(pushIn.local)
                                    ELSE divergenceIndex * ChunkSize]
    /\ pushOut.pos = divergenceIndex * ChunkSize
    /\ pushOut.ops[Len(pushOut.ops)].from = divergenceIndex * ChunkSize

\* C20: when InspectFile fails with an error whose message contains
\* "not found", PushFile pushes the whole local file from offset 0; when it
\* fails with any other error, PushFile returns that error and makes no
\* Seek and no put call.
InspectOutcomes ==
  (pushPc = "done" /\ pushIn.inspectErr # Nil) =>
    IF Contains(Messages[pushIn.inspectErr[2]], <<"not", "found">>)
      THEN PushDone =>
             /\ pushOut.ret = Nil
             /\ pushOut.pos = 0
             /\ pushOut.ops =
                  << [op |-> "Seek", arg |-> 0, from |-> 0],
                     [op |-> "PutFileOverwrite", arg |-> 0, from |-> 0] >>
      ELSE pushOut.ret = pushIn.inspectErr /\ pushOut.ops = <<>>

\* InspectFile failed with "repo not found in pfs" and the whole local file
\* of MaxLocalLen bytes was put
InspectOutcomesWitness ==
  /\ PushDone
  /\ pushIn.inspectErr = Err("inspect", 3)
  /\ Len(pushIn.local) = MaxLocalLen
  /\ PutMade
  /\ PutArg = 0
  /\ pushOut.ret = Nil
====
